---- MODULE Spec2Model ----
(***************************************************************************)
(* Model of the bingo sheet generator                                      *)
(* (src/bingosheetgenerator/bingo_generator.py, driven from the command    *)
(* line by main() or from the form of src/bingo_gui.py).                   *)
(*                                                                         *)
(* A run of generate_pdf is a sequence of steps: seed the generator and    *)
(* resolve the letter colors, validate the configuration (with its two     *)
(* confirmation prompts), open the document, draw the sheets one by one,   *)
(* save.  The variables are functions over run identifiers so that the     *)
(* same actions describe one run (Spec) and two runs of one configuration  *)
(* side by side (SpecPair).  The pure functions segment_ranges and         *)
(* choose_grid are also exercised on their own inputs (SpecFn).            *)
(*                                                                         *)
(* Python values: an Optional is a tuple, <<>> for None and <<v>> for the  *)
(* value v (the seed, the custom color spec, a card cell); strings that    *)
(* the code parses are tuples of one-character strings; a reportlab Color  *)
(* is the tuple <<r, g, b>> of its channels in 0..255.                     *)
(***************************************************************************)
EXTENDS Integers, Sequences, FiniteSets, TLC

\* ------------------------------------------------------------------ bounds
\* sheets is drawn from 0..MaxSheets, sheets_per_page from 0..MaxPerPage,
\* an explicit seed from 0..MaxSeed.
MaxSheets == 5
MaxPerPage == 4
MaxSeed == 1
\* SpecPair: two runs of one configuration of 1..MaxPairSheets sheets.
MaxPairSheets == 2
\* SpecFn: segment_ranges on pools of 24..24+MaxExtraPool values,
\* choose_grid on 1..MaxGridCards cards per page.
MaxExtraPool == 16
MaxGridCards == 7

\* ------------------------------------------------------- program constants
LETTERS == <<"B", "I", "N", "G", "O">>

Black == <<0, 0, 0>>

\* ----------------------------------------------------------------- helpers
None == <<>>

Some(v) == <<v>>

Min2(a, b) == IF a <= b THEN a ELSE b

\* math.ceil(a / b) for a >= 0, b > 0 (the float quotient of two small
\* integers is exact enough for ceil to be the integer ceiling).
Ceil(a, b) == IF a % b = 0 THEN a \div b ELSE (a \div b) + 1

\* list(range(lo, hi + 1))
RangeList(lo, hi) == [i \in 1..(IF hi >= lo THEN hi - lo + 1 ELSE 0) |-> lo + i - 1]

SeqToSet(s) == {s[i] : i \in 1..Len(s)}

\* ------------------------------------------------------------------ strings
\* str.strip(): drop leading and trailing blanks.
RECURSIVE LStrip(_)
LStrip(s) == IF s # <<>> /\ Head(s) = " " THEN LStrip(Tail(s)) ELSE s

RECURSIVE RStrip(_)
RStrip(s) ==
    IF s # <<>> /\ s[Len(s)] = " " THEN RStrip(SubSeq(s, 1, Len(s) - 1)) ELSE s

Strip(s) == RStrip(LStrip(s))

LowerChar(c) ==
    CASE c = "Y" -> "y" [] c = "E" -> "e" [] c = "S" -> "s" [] c = "N" -> "n"
      [] c = "O" -> "o" [] c = "B" -> "b" [] c = "I" -> "i" [] c = "G" -> "g"
      [] c = "X" -> "x" [] OTHER -> c

UpperChar(c) ==
    CASE c = "y" -> "Y" [] c = "e" -> "E" [] c = "s" -> "S" [] c = "n" -> "N"
      [] c = "o" -> "O" [] c = "b" -> "B" [] c = "i" -> "I" [] c = "g" -> "G"
      [] c = "x" -> "X" [] OTHER -> c

Lower(s) == [i \in 1..Len(s) |-> LowerChar(s[i])]

Upper(s) == [i \in 1..Len(s) |-> UpperChar(s[i])]

\* index of the first occurrence of c in s, 0 when there is none
RECURSIVE IndexOf(_, _, _)
IndexOf(s, c, i) ==
    IF i > Len(s) THEN 0 ELSE IF s[i] = c THEN i ELSE IndexOf(s, c, i + 1)

\* s.split(c): the pieces between the occurrences of c (always at least one).
RECURSIVE Split(_, _)
Split(s, c) ==
    LET k == IndexOf(s, c, 1) IN
    IF k = 0 THEN <<s>>
    ELSE <<SubSeq(s, 1, k - 1)>> \o Split(SubSeq(s, k + 1, Len(s)), c)

\* `t in "BINGO"`: Python's substring test on the string LETTERS.
IsSubstring(t, s) ==
    \E i \in 0..(Len(s) - Len(t)) : SubSeq(s, i + 1, i + Len(t)) = t

\* --------------------------------------------------------------- colors
HexDigits ==
    {"0", "1", "2", "3", "4", "5", "6", "7", "8", "9",
     "A", "B", "C", "D", "E", "F", "a", "b", "c", "d", "e", "f"}

HexVal(c) ==
    CASE c = "0" -> 0 [] c = "1" -> 1 [] c = "2" -> 2 [] c = "3" -> 3
      [] c = "4" -> 4 [] c = "5" -> 5 [] c = "6" -> 6 [] c = "7" -> 7
      [] c = "8" -> 8 [] c = "9" -> 9
      [] c \in {"A", "a"} -> 10 [] c \in {"B", "b"} -> 11
      [] c \in {"C", "c"} -> 12 [] c \in {"D", "d"} -> 13
      [] c \in {"E", "e"} -> 14 [] c \in {"F", "f"} -> 15

\* re.fullmatch(r"#[0-9A-Fa-f]{6}", value)
IsHexColor(value) ==
    /\ Len(value) = 7
    /\ value[1] = "#"
    /\ \A i \in 2..7 : value[i] \in HexDigits

\* colors.HexColor(value): the three channels
HexColor(value) ==
    [k \in 1..3 |-> 16 * HexVal(value[2 * k]) + HexVal(value[2 * k + 1])]

\* parse_hex_color: [ok, color]; ok = FALSE is the ValueError
parse_hex_color(value) ==
    IF IsHexColor(value)
    THEN [ok |-> TRUE, color |-> HexColor(value)]
    ELSE [ok |-> FALSE, color |-> Black]

\* result[letter] = color
DictSet(d, k, v) == [x \in (DOMAIN d) \cup {k} |-> IF x = k THEN v ELSE d[x]]

EmptyDict == [x \in {} |-> Black]

ColorError(kind, missing) ==
    [ok |-> FALSE, colors |-> EmptyDict, error |-> kind, missing |-> missing]

\* the loop over spec.split(","), lines 131-138
RECURSIVE ParseItems(_, _)
ParseItems(items, result) ==
    IF items = <<>>
    THEN [ok |-> TRUE, colors |-> result, error |-> "", missing |-> <<>>]
    ELSE LET item == Head(items)
             k == IndexOf(item, ":", 1)
         IN IF k = 0 THEN ColorError("Invalid custom color entry", <<>>)
            ELSE LET key == SubSeq(item, 1, k - 1)
                     raw_color == SubSeq(item, k + 1, Len(item))
                     letter == Upper(Strip(key))
                     parsed == parse_hex_color(Strip(raw_color))
                 IN IF ~IsSubstring(letter, LETTERS)
                    THEN ColorError("Invalid letter", <<>>)
                    ELSE IF ~parsed.ok
                    THEN ColorError("Invalid color", <<>>)
                    ELSE ParseItems(Tail(items),
                                    DictSet(result, letter, parsed.color))

\* parse_custom_letter_colors(spec): spec is None (<<>>) or <<string>>
parse_custom_letter_colors(spec) ==
    IF spec = None \/ spec[1] = <<>>
    THEN ColorError("--custom-letter-colors is required", <<>>)
    ELSE LET res == ParseItems(Split(spec[1], ","), EmptyDict)
             missing == SelectSeq(LETTERS, LAMBDA l : <<l>> \notin DOMAIN res.colors)
         IN IF ~res.ok THEN res
            ELSE IF missing # <<>>
            THEN ColorError("Missing custom colors for", missing)
            ELSE res

\* ------------------------------------------------------ the random source
\* random.Random is a deterministic generator: a state, advanced by every
\* draw.  Its state space is abstracted to 0..250.
RngNext(s) == (33 * s + 17) % 251

\* random.Random(seed) for an integer seed
SeedState(seed) == (7 * seed + 3) % 251

\* rng._randbelow(n) after the state has advanced to s
RandBelow(s, n) == s % n

\* rng.randint(a, b)
RandInt(s, a, b) == a + RandBelow(s, b - a + 1)

\* rng.sample(population, k): k draws from a shrinking pool; each drawn
\* item's slot is refilled with the last item not yet drawn.
RECURSIVE SampleStep(_, _, _, _, _)
SampleStep(pool, k, i, s, result) ==
    IF i = k THEN [out |-> result, rng |-> s]
    ELSE LET n == Len(pool)
             s2 == RngNext(s)
             j == RandBelow(s2, n - i)
         IN SampleStep([pool EXCEPT ![j + 1] = pool[n - i]], k, i + 1, s2,
                       Append(result, pool[j + 1]))

Sample(population, k, s) == SampleStep(population, k, 0, s, <<>>)

\* rng.shuffle(x): for i in reversed(range(1, len(x))): swap x[i], x[randbelow(i+1)]
RECURSIVE ShuffleStep(_, _, _)
ShuffleStep(x, i, s) ==
    IF i < 1 THEN [out |-> x, rng |-> s]
    ELSE LET s2 == RngNext(s)
             j == RandBelow(s2, i + 1)
         IN ShuffleStep([x EXCEPT ![i + 1] = x[j + 1], ![j + 1] = x[i + 1]],
                        i - 1, s2)

Shuffle(x, s) == ShuffleStep(x, Len(x) - 1, s)

\* sorted(xs)
RECURSIVE InsertSorted(_, _)
InsertSorted(xs, v) ==
    IF xs = <<>> THEN <<v>>
    ELSE IF v < Head(xs) THEN <<v>> \o xs
    ELSE <<Head(xs)>> \o InsertSorted(Tail(xs), v)

RECURSIVE SortFrom(_, _)
SortFrom(xs, acc) ==
    IF xs = <<>> THEN acc ELSE SortFrom(Tail(xs), InsertSorted(acc, Head(xs)))

\* Variant of Sorted that leaves the values in the order drawn.
Unsorted(xs) == xs

Sorted(xs) == SortFrom(xs, <<>>)

\* random_letter_colors(rng): three randint(40, 220) per letter, in order
RECURSIVE RandomColorsFrom(_, _, _)
RandomColorsFrom(i, s, mapping) ==
    IF i > Len(LETTERS) THEN [colors |-> mapping, rng |-> s]
    ELSE LET s1 == RngNext(s)
             s2 == RngNext(s1)
             s3 == RngNext(s2)
             color == <<RandInt(s1, 40, 220), RandInt(s2, 40, 220),
                        RandInt(s3, 40, 220)>>
         IN RandomColorsFrom(i + 1, s3, DictSet(mapping, <<LETTERS[i]>>, color))

random_letter_colors(s) == RandomColorsFrom(1, s, EmptyDict)

\* ------------------------------------------------------------ segmenting
\* the loop of segment_ranges: slices of `numbers` of size base (+1 for the
\* first `remainder` slices), idx the 0-based start of the next slice
RECURSIVE SegmentsFrom(_, _, _, _, _, _)
SegmentsFrom(numbers, parts, base, remainder, i, idx) ==
    IF i >= parts THEN <<>>
    ELSE LET size == base + (IF i < remainder THEN 1 ELSE 0)
         IN <<SubSeq(numbers, idx + 1, Min2(idx + size, Len(numbers)))>>
            \o SegmentsFrom(numbers, parts, base, remainder, i + 1, idx + size)

\* Variant of segment_ranges that gives the extra elements to the last
\* `remainder` slices instead of the first.
RECURSIVE SegmentsBackFrom(_, _, _, _, _, _)
SegmentsBackFrom(numbers, parts, base, remainder, i, idx) ==
    IF i >= parts THEN <<>>
    ELSE LET size == base + (IF i >= parts - remainder THEN 1 ELSE 0)
         IN <<SubSeq(numbers, idx + 1, Min2(idx + size, Len(numbers)))>>
            \o SegmentsBackFrom(numbers, parts, base, remainder, i + 1, idx + size)

segment_ranges_back(min_number, max_number, parts) ==
    LET numbers == RangeList(min_number, max_number)
        total == Len(numbers)
    IN SegmentsBackFrom(numbers, parts, total \div parts, total % parts, 0, 0)

segment_ranges(min_number, max_number, parts) ==
    LET numbers == RangeList(min_number, max_number)
        total == Len(numbers)
        base == total \div parts
        remainder == total % parts
    IN SegmentsFrom(numbers, parts, base, remainder, 0, 0)

\* ------------------------------------------------------------------ cards
EmptyCard == [row \in 0..4 |-> [col \in 0..4 |-> None]]

\* row_indices.remove(2)
RemoveFirst(xs, v) ==
    LET k == IndexOf(xs, v, 1)
    IN IF k = 0 THEN xs ELSE SubSeq(xs, 1, k - 1) \o SubSeq(xs, k + 1, Len(xs))

\* for row, value in zip(row_indices, chosen): card[row][col] = value
PlaceColumn(card, col, row_indices, chosen) ==
    [row \in 0..4 |->
        [c \in 0..4 |->
            IF c = col /\ \E i \in 1..Min2(Len(row_indices), Len(chosen)) :
                              row_indices[i] = row
            THEN LET i == CHOOSE i \in 1..Min2(Len(row_indices), Len(chosen)) :
                              row_indices[i] = row
                 IN Some(chosen[i])
            ELSE card[row][c]]]

\* generate_card, segmented branch: the loop over the columns from `col` on.
\* ok = FALSE is the ValueError of rng.sample on a segment shorter than need.
RECURSIVE SegmentedFrom(_, _, _, _)
SegmentedFrom(card, col, s, segments) ==
    IF col > 4 THEN [ok |-> TRUE, card |-> card, rng |-> s]
    ELSE LET need == IF col = 2 THEN 4 ELSE 5
         IN IF col + 1 > Len(segments) \/ Len(segments[col + 1]) < need
            THEN [ok |-> FALSE, card |-> card, rng |-> s]
            ELSE LET drawn == Sample(segments[col + 1], need, s)
                     chosen == Sorted(drawn.out)
                     row_indices == IF col = 2
                                    THEN RemoveFirst(<<0, 1, 2, 3, 4>>, 2)
                                    ELSE <<0, 1, 2, 3, 4>>
                 IN SegmentedFrom(PlaceColumn(card, col, row_indices, chosen),
                                  col + 1, drawn.rng, segments)

\* generate_card, fully-random branch: the row-major loop from cell k on
\* (k = 5 * row + col), i the index of the next value of `chosen`
RECURSIVE PlaceRowMajor(_, _, _, _)
PlaceRowMajor(card, k, i, chosen) ==
    IF k > 24 THEN card
    ELSE LET row == k \div 5
             col == k % 5
         IN IF row = 2 /\ col = 2 THEN PlaceRowMajor(card, k + 1, i, chosen)
            ELSE PlaceRowMajor(
                    [card EXCEPT ![row][col] = Some(chosen[i + 1])],
                    k + 1, i + 1, chosen)

\* Variant of generate_card whose fully-random branch draws its 24 values
\* independently (rng.choices) instead of without replacement (rng.sample).
RECURSIVE ChoicesStep(_, _, _, _)
ChoicesStep(pool, k, s, result) ==
    IF Len(result) = k THEN [out |-> result, rng |-> s]
    ELSE LET s2 == RngNext(s)
         IN ChoicesStep(pool, k, s2,
                        Append(result, pool[RandBelow(s2, Len(pool)) + 1]))

generate_card_choices(s, min_number, max_number, distribution, segments) ==
    IF distribution = "segmented"
    THEN SegmentedFrom(EmptyCard, 0, s, segments)
    ELSE LET pool == RangeList(min_number, max_number)
             drawn == ChoicesStep(pool, 24, s, <<>>)
             shuffled == Shuffle(drawn.out, drawn.rng)
         IN [ok |-> TRUE,
             card |-> PlaceRowMajor(EmptyCard, 0, 0, shuffled.out),
             rng |-> shuffled.rng]

generate_card(s, min_number, max_number, distribution, segments) ==
    IF distribution = "segmented"
    THEN SegmentedFrom(EmptyCard, 0, s, segments)
    ELSE LET pool == RangeList(min_number, max_number)
         IN IF Len(pool) < 24 THEN [ok |-> FALSE, card |-> EmptyCard, rng |-> s]
            ELSE LET drawn == Sample(pool, 24, s)
                     shuffled == Shuffle(drawn.out, drawn.rng)
                 IN [ok |-> TRUE,
                     card |-> PlaceRowMajor(EmptyCard, 0, 0, shuffled.out),
                     rng |-> shuffled.rng]

\* ------------------------------------------------------------ page layout
\* A score is the fraction <<numerator, denominator>> (denominator > 0):
\* the quotients of the code are compared exactly.
FracLess(a, b) == a[1] * b[2] < b[1] * a[2]

\* min(cell_w, cell_h): the first argument unless the second is smaller
FracMin(a, b) == IF FracLess(b, a) THEN b ELSE a

GridScore(sheets_per_page, page_w, page_h, cols) ==
    FracMin(<<page_w, cols>>, <<page_h, Ceil(sheets_per_page, cols)>>)

\* the loop of choose_grid from candidate `cols` on
RECURSIVE GridFrom(_, _, _, _, _)
GridFrom(sheets_per_page, page_w, page_h, cols, best) ==
    IF cols > sheets_per_page THEN best
    ELSE LET rows == Ceil(sheets_per_page, cols)
             score == GridScore(sheets_per_page, page_w, page_h, cols)
         IN GridFrom(sheets_per_page, page_w, page_h, cols + 1,
                     IF FracLess(best.score, score)
                     THEN [cols |-> cols, rows |-> rows, score |-> score]
                     ELSE best)

\* Variant of choose_grid that compares with >= : the last maximum wins.
RECURSIVE GridLastFrom(_, _, _, _, _)
GridLastFrom(sheets_per_page, page_w, page_h, cols, best) ==
    IF cols > sheets_per_page THEN best
    ELSE LET rows == Ceil(sheets_per_page, cols)
             score == GridScore(sheets_per_page, page_w, page_h, cols)
         IN GridLastFrom(sheets_per_page, page_w, page_h, cols + 1,
                         IF ~FracLess(score, best.score)
                         THEN [cols |-> cols, rows |-> rows, score |-> score]
                         ELSE best)

choose_grid_last(sheets_per_page, page_w, page_h) ==
    LET best == GridLastFrom(sheets_per_page, page_w, page_h, 1,
                             [cols |-> 1, rows |-> sheets_per_page,
                              score |-> <<-1, 1>>])
    IN <<best.cols, best.rows>>

\* Variant of choose_grid that rounds the number of rows down.
choose_grid_floor(sheets_per_page, page_w, page_h) ==
    LET best == GridFrom(sheets_per_page, page_w, page_h, 1,
                         [cols |-> 1, rows |-> sheets_per_page,
                          score |-> <<-1, 1>>])
    IN <<best.cols, sheets_per_page \div best.cols>>

choose_grid(sheets_per_page, page_w, page_h) ==
    LET best == GridFrom(sheets_per_page, page_w, page_h, 1,
                         [cols |-> 1, rows |-> sheets_per_page,
                          score |-> <<-1, 1>>])
    IN <<best.cols, best.rows>>

\* A4 and LETTER of reportlab.lib.pagesizes, as <<width, height>>: A4 in
\* millimetres and LETTER in points (choose_grid depends on the ratio only).
PageSize(paper_size) == IF paper_size = "a4" THEN <<210, 297>> ELSE <<612, 792>>

\* str(value) of an integer: its decimal digits
Digit(d) == <<"0", "1", "2", "3", "4", "5", "6", "7", "8", "9">>[d + 1]

RECURSIVE DecStr(_)
DecStr(n) ==
    IF n < 0 THEN <<"-">> \o DecStr(0 - n)
    ELSE IF n < 10 THEN <<Digit(n)>>
    ELSE DecStr(n \div 10) \o <<Digit(n % 10)>>

\* the texts draw_card prints in the 25 cells (lines 328-338)
draw_card(card) ==
    [row \in 0..4 |->
        [col \in 0..4 |->
            IF row = 2 /\ col = 2 THEN <<"F", "R", "E", "E">>
            ELSE IF card[row][col] = None THEN <<"N", "o", "n", "e">>
            ELSE DecStr(card[row][col][1])]]

\* ------------------------------------------------------------ configuration
\* The number ranges tried: max < min, fewer than 24 values, exactly 24,
\* 25 (five equal segments), 27 (uneven, from a negative minimum), 1..75.
Ranges ==
    {<<1, 0>>, <<1, 23>>, <<1, 24>>, <<1, 25>>, <<-2, 24>>, <<1, 75>>}

Str(t) == Some(t)

ColorB == <<"B", ":", "#", "1", "F", "7", "7", "B", "4">>
ColorI == <<"I", ":", "#", "D", "6", "2", "7", "2", "8">>
ColorN == <<" ", "n", " ", ":", " ", "#", "2", "c", "a", "0", "2", "c">>
ColorG == <<"G", ":", "#", "F", "F", "B", "F", "0", "0">>
ColorO == <<"O", ":", "#", "9", "4", "6", "7", "B", "D">>

Comma == <<",">>

\* --custom-letter-colors values tried: complete, O missing
CustomSpecs ==
    {Str(ColorB \o Comma \o ColorI \o Comma \o ColorN \o Comma \o ColorG
         \o Comma \o ColorO),
     Str(ColorB \o Comma \o ColorI \o Comma \o ColorN \o Comma \o ColorG)}

ColorChoices ==
    {<<"black", None>>, <<"random", None>>}
        \cup {<<"custom", c>> : c \in CustomSpecs}

\* A command-line run (parse_args) has no free-center option: its center is
\* always free.  A run started from the form (BingoGui._build_config) is
\* built with assume_yes = True and carries the free-center checkbox.
\* No function of bingo_generator.py reads free_center: generate_card and
\* draw_card treat cell (2, 2) as free whatever its value.
FrontEnds ==
    {[assume_yes |-> FALSE, free_center |-> TRUE],
     [assume_yes |-> TRUE, free_center |-> TRUE],
     [assume_yes |-> TRUE, free_center |-> FALSE]}

Seeds == {None} \cup {Some(n) : n \in 0..MaxSeed}

MakeConfig(sheets, per_page, paper, range, distribution, color, seed, front) ==
    [sheets |-> sheets, sheets_per_page |-> per_page, paper_size |-> paper,
     min_number |-> range[1], max_number |-> range[2],
     distribution |-> distribution,
     letter_color_mode |-> color[1], custom_letter_colors |-> color[2],
     seed |-> seed, assume_yes |-> front.assume_yes,
     free_center |-> front.free_center]

\* The configurations tried.  sheets, sheets_per_page, the number range, the
\* distribution and the front end vary together; the paper size, the letter
\* colors and the seed vary one at a time around (a4, black, seed 0).
Variations ==
    {<<paper, <<"black", None>>, Some(0)>> : paper \in {"a4", "letter"}}
        \cup {<<"a4", color, Some(0)>> : color \in ColorChoices}
        \cup {<<"a4", <<"black", None>>, seed>> : seed \in Seeds}

Configs ==
    {MakeConfig(sh, pp, v[1], range, dist, v[2], v[3], front) :
        sh \in 0..MaxSheets, pp \in 0..MaxPerPage, range \in Ranges,
        dist \in {"segmented", "fully-random"}, v \in Variations,
        front \in FrontEnds}

\* the defaults of parse_args
DefaultConfig ==
    MakeConfig(4, 4, "a4", <<1, 75>>, "segmented", <<"black", None>>, None,
               [assume_yes |-> FALSE, free_center |-> TRUE])

\* What input() gives at a prompt: a line, or None at end of input.
Inputs ==
    {None, Some(<<"y">>), Some(<<"Y", "E", "S", " ">>), Some(<<"n">>), Some(<<>>)}

\* With no seed the generator is seeded from the system's entropy: any state.
UnseededStates == {SeedState(n) : n \in (MaxSeed + 1)..(MaxSeed + 2)}

\* ------------------------------------------------------------------- state
VARIABLES
    config,         \* the Config of the run(s)
    pc,             \* pc[r]: where run r stands in generate_pdf
    rng,            \* rng[r]: the state of the run's random.Random
    letter_colors,  \* letter_colors[r]: the resolved letter -> color map
    segments,       \* segments[r]: what validate_config returned
    prompts,        \* prompts[r]: the warnings confirm_or_exit has printed
    answers,        \* answers[r]: what input() returned at each prompt
    pdf,            \* pdf[r]: "none", "open" (canvas created) or "saved"
    grid,           \* grid[r]: <<cols, rows>> of choose_grid
    sheet_idx,      \* sheet_idx[r]: the next sheet of the rendering loop
    pages,          \* pages[r]: number of showPage() calls so far
    drawn,          \* drawn[r]: the cards drawn, in order
    outcome,        \* outcome[r]: "running", "success", "fatal", "cancelled", "eof"
    exit_status,    \* exit_status[r]: the process status, None while running
    error,          \* error[r]: the ValueError message of a fatal outcome
    call            \* a pure function applied on its own (SpecFn)

vars ==
    <<config, pc, rng, letter_colors, segments, prompts, answers, pdf, grid,
      sheet_idx, pages, drawn, outcome, exit_status, error, call>>

Runs == DOMAIN pc

NoCall == [fn |-> "none", args |-> <<>>, result |-> None]

InitRuns(R) ==
    /\ pc = [r \in R |-> "start"]
    /\ rng = [r \in R |-> 0]
    /\ letter_colors = [r \in R |-> EmptyDict]
    /\ segments = [r \in R |-> <<>>]
    /\ prompts = [r \in R |-> <<>>]
    /\ answers = [r \in R |-> <<>>]
    /\ pdf = [r \in R |-> "none"]
    /\ grid = [r \in R |-> <<0, 0>>]
    /\ sheet_idx = [r \in R |-> 0]
    /\ pages = [r \in R |-> 0]
    /\ drawn = [r \in R |-> <<>>]
    /\ outcome = [r \in R |-> "running"]
    /\ exit_status = [r \in R |-> None]
    /\ error = [r \in R |-> ""]

Init ==
    /\ config \in Configs
    /\ InitRuns({1})
    /\ call = NoCall

\* Variant of MainExit in which a declined warning exits like a fatal error.
MainExitTwo(out) == IF out = "success" THEN 0 ELSE 2

\* main(): the status the process exits with for each way generate_pdf ends.
\* sys.exit(1) of confirm_or_exit and an uncaught EOFError of input() both
\* pass through main's except clauses and end the process with status 1.
MainExit(out) ==
    CASE out = "success" -> 0
      [] out = "fatal" -> 2
      [] out = "cancelled" -> 1
      [] out = "eof" -> 1

\* the run ends: an exception leaves generate_pdf, or it returns
Finish(r, out, message) ==
    /\ pc' = [pc EXCEPT ![r] = "done"]
    /\ outcome' = [outcome EXCEPT ![r] = out]
    /\ exit_status' = [exit_status EXCEPT ![r] = Some(MainExit(out))]
    /\ error' = [error EXCEPT ![r] = message]

Goto(r, label) ==
    /\ pc' = [pc EXCEPT ![r] = label]
    /\ UNCHANGED <<outcome, exit_status, error>>

\* Variant of InitialRngStates that ignores the seed: random.Random().
InitialRngStatesUnseeded(seed) == UnseededStates

\* rng = random.Random(config.seed): the states the generator can start in
InitialRngStates(seed) ==
    IF seed = None THEN UnseededStates ELSE {SeedState(seed[1])}

\* generate_pdf lines 342-353: seed the generator, resolve the letter colors
Start(r) ==
    /\ pc[r] = "start"
    /\ \E s0 \in InitialRngStates(config.seed) :
         IF config.letter_color_mode = "black"
         THEN /\ rng' = [rng EXCEPT ![r] = s0]
              /\ letter_colors' =
                    [letter_colors EXCEPT
                        ![r] = [l \in {<<LETTERS[i]>> : i \in 1..Len(LETTERS)} |-> Black]]
              /\ Goto(r, "validate")
         ELSE IF config.letter_color_mode = "random"
         THEN LET res == random_letter_colors(s0)
              IN /\ rng' = [rng EXCEPT ![r] = res.rng]
                 /\ letter_colors' = [letter_colors EXCEPT ![r] = res.colors]
                 /\ Goto(r, "validate")
         ELSE LET res == parse_custom_letter_colors(config.custom_letter_colors)
              IN /\ rng' = [rng EXCEPT ![r] = s0]
                 /\ IF res.ok
                    THEN /\ letter_colors' = [letter_colors EXCEPT ![r] = res.colors]
                         /\ Goto(r, "validate")
                    ELSE /\ UNCHANGED letter_colors
                         /\ Finish(r, "fatal", res.error)
    /\ UNCHANGED <<config, segments, prompts, answers, pdf, grid, sheet_idx,
                   pages, drawn, call>>

\* validate_config lines 186-195: the fatal range checks
RangeError(c) ==
    IF c.sheets <= 0 THEN "--sheets must be greater than 0"
    ELSE IF c.sheets_per_page <= 0
    THEN "--sheets-per-page must be greater than 0"
    ELSE IF c.max_number < c.min_number
    THEN "--max-number must be >= --min-number"
    ELSE IF c.max_number - c.min_number + 1 < 24
    THEN "Number range must include at least 24 values"
    ELSE ""

ValidateRanges(r) ==
    /\ pc[r] = "validate"
    /\ IF RangeError(config) # ""
       THEN Finish(r, "fatal", RangeError(config))
       ELSE Goto(r, "confirm_pages")
    /\ UNCHANGED <<config, rng, letter_colors, segments, prompts, answers, pdf,
                   grid, sheet_idx, pages, drawn, call>>

\* confirm_or_exit's test of the answer: answer.strip().lower() in {"y", "yes"}
Accepts(line) == Lower(Strip(line)) \in {<<"y">>, <<"y", "e", "s">>}

\* Variant of Confirm that reads an answer whatever assume_yes is.
ConfirmAlwaysAsks(r, message, next) ==
    /\ prompts' = [prompts EXCEPT ![r] = Append(@, message)]
    /\ \E in \in Inputs :
          /\ answers' = [answers EXCEPT ![r] = Append(@, in)]
          /\ IF in = None THEN Finish(r, "eof", "")
             ELSE IF Accepts(in[1]) THEN Goto(r, next)
             ELSE Finish(r, "cancelled", "")

\* confirm_or_exit(message, assume_yes), then continue at `next`
Confirm(r, message, next) ==
    /\ prompts' = [prompts EXCEPT ![r] = Append(@, message)]
    /\ IF config.assume_yes
       THEN /\ UNCHANGED answers
            /\ Goto(r, next)
       ELSE \E in \in Inputs :
              /\ answers' = [answers EXCEPT ![r] = Append(@, in)]
              /\ IF in = None THEN Finish(r, "eof", "")
                 ELSE IF Accepts(in[1]) THEN Goto(r, next)
                 ELSE Finish(r, "cancelled", "")

\* Variant of PagesMessage that rounds the page count down.
PagesMessageFloor(c) ==
    LET pages_needed == c.sheets \div c.sheets_per_page
    IN [kind |-> "uneven_pages",
        values |-> <<c.sheets, c.sheets_per_page, pages_needed,
                     pages_needed * c.sheets_per_page - c.sheets>>]

\* the message of the uneven-pages warning (lines 198-205)
PagesMessage(c) ==
    LET pages_needed == Ceil(c.sheets, c.sheets_per_page)
        capacity == pages_needed * c.sheets_per_page
        empty_slots == capacity - c.sheets
    IN [kind |-> "uneven_pages",
        values |-> <<c.sheets, c.sheets_per_page, pages_needed, empty_slots>>]

\* validate_config lines 197-207
ConfirmPages(r) ==
    /\ pc[r] = "confirm_pages"
    /\ IF config.sheets % config.sheets_per_page # 0
       THEN Confirm(r, PagesMessage(config), "confirm_segments")
       ELSE /\ Goto(r, "confirm_segments")
            /\ UNCHANGED <<prompts, answers>>
    /\ UNCHANGED <<config, rng, letter_colors, segments, pdf, grid, sheet_idx,
                   pages, drawn, call>>

Lengths(segs) == [i \in 1..Len(segs) |-> Len(segs[i])]

\* Variant of ConfirmSegments that tests the number of segments, not the
\* number of different lengths.
ConfirmSegmentsCount(r) ==
    /\ pc[r] = "confirm_segments"
    /\ IF config.distribution = "segmented"
       THEN LET segs == segment_ranges(config.min_number, config.max_number, 5)
                lengths == Lengths(segs)
            IN /\ segments' = [segments EXCEPT ![r] = segs]
               /\ IF Len(lengths) # 1
                  THEN Confirm(r, [kind |-> "uneven_segments", values |-> lengths],
                               "check_columns")
                  ELSE /\ Goto(r, "check_columns")
                       /\ UNCHANGED <<prompts, answers>>
       ELSE /\ segments' = [segments EXCEPT ![r] = <<>>]
            /\ Goto(r, "open")
            /\ UNCHANGED <<prompts, answers>>
    /\ UNCHANGED <<config, rng, letter_colors, pdf, grid, sheet_idx, pages,
                   drawn, call>>

\* validate_config lines 209-220: fully-random returns the empty list at
\* once; segmented computes the segments and warns when they are uneven
ConfirmSegments(r) ==
    /\ pc[r] = "confirm_segments"
    /\ IF config.distribution = "segmented"
       THEN LET segs == segment_ranges(config.min_number, config.max_number, 5)
                lengths == Lengths(segs)
            IN /\ segments' = [segments EXCEPT ![r] = segs]
               /\ IF Cardinality(SeqToSet(lengths)) # 1
                  THEN Confirm(r, [kind |-> "uneven_segments", values |-> lengths],
                               "check_columns")
                  ELSE /\ Goto(r, "check_columns")
                       /\ UNCHANGED <<prompts, answers>>
       ELSE /\ segments' = [segments EXCEPT ![r] = <<>>]
            /\ Goto(r, "open")
            /\ UNCHANGED <<prompts, answers>>
    /\ UNCHANGED <<config, rng, letter_colors, pdf, grid, sheet_idx, pages,
                   drawn, call>>

required_per_col == <<5, 5, 4, 5, 5>>

\* Variant of ShortColumn that also rejects a segment with exactly the
\* required count.
ShortColumnStrict(segs) ==
    LET n == Min2(Len(LETTERS), Min2(Len(segs), Len(required_per_col)))
        short == {i \in 1..n : Len(segs[i]) <= required_per_col[i]}
    IN IF short = {} THEN 0 ELSE CHOOSE i \in short : \A j \in short : i <= j

\* the first column whose segment is shorter than required, 0 when none
\* (the zip of lines 223-227 stops at the shortest of its arguments)
ShortColumn(segs) ==
    LET n == Min2(Len(LETTERS), Min2(Len(segs), Len(required_per_col)))
        short == {i \in 1..n : Len(segs[i]) < required_per_col[i]}
    IN IF short = {} THEN 0 ELSE CHOOSE i \in short : \A j \in short : i <= j

\* Variant of CheckColumns without the per-column requirement check.
CheckColumnsSkipped(r) ==
    /\ pc[r] = "check_columns"
    /\ Goto(r, "open")
    /\ UNCHANGED <<config, rng, letter_colors, segments, prompts, answers, pdf,
                   grid, sheet_idx, pages, drawn, call>>

\* validate_config lines 222-229
CheckColumns(r) ==
    /\ pc[r] = "check_columns"
    /\ IF ShortColumn(segments[r]) # 0
       THEN Finish(r, "fatal", "Not enough numbers in column")
       ELSE Goto(r, "open")
    /\ UNCHANGED <<config, rng, letter_colors, segments, prompts, answers, pdf,
                   grid, sheet_idx, pages, drawn, call>>

\* generate_pdf lines 357-365: create the canvas, plan the page
OpenPdf(r) ==
    /\ pc[r] = "open"
    /\ pdf' = [pdf EXCEPT ![r] = "open"]
    /\ grid' = [grid EXCEPT ![r] =
                  choose_grid(config.sheets_per_page,
                              PageSize(config.paper_size)[1],
                              PageSize(config.paper_size)[2])]
    /\ Goto(r, "draw")
    /\ UNCHANGED <<config, rng, letter_colors, segments, prompts, answers,
                   sheet_idx, pages, drawn, call>>

\* Variant of DrawSheet that starts a new page before the first card too.
DrawSheetBlankFirst(r) ==
    /\ pc[r] = "draw"
    /\ sheet_idx[r] < config.sheets
    /\ LET idx_on_page == sheet_idx[r] % config.sheets_per_page
           new_page == idx_on_page = 0
           page == IF new_page THEN pages[r] + 1 ELSE pages[r]
           row == idx_on_page \div grid[r][1]
           col == idx_on_page % grid[r][1]
           made == generate_card(rng[r], config.min_number, config.max_number,
                                 config.distribution, segments[r])
       IN /\ pages' = [pages EXCEPT ![r] = page]
          /\ rng' = [rng EXCEPT ![r] = made.rng]
          /\ IF made.ok
             THEN /\ drawn' = [drawn EXCEPT ![r] =
                        Append(@, [sheet |-> sheet_idx[r], page |-> page,
                                   row |-> row, col |-> col,
                                   card |-> made.card,
                                   printed |-> draw_card(made.card)])]
                  /\ sheet_idx' = [sheet_idx EXCEPT ![r] = @ + 1]
                  /\ Goto(r, "draw")
             ELSE /\ UNCHANGED <<drawn, sheet_idx>>
                  /\ Finish(r, "fatal", "Sample larger than population")
    /\ UNCHANGED <<config, letter_colors, segments, prompts, answers, pdf, grid,
                   call>>

\* generate_pdf lines 367-386: one iteration of the rendering loop
DrawSheet(r) ==
    /\ pc[r] = "draw"
    /\ sheet_idx[r] < config.sheets
    /\ LET idx_on_page == sheet_idx[r] % config.sheets_per_page
           new_page == idx_on_page = 0 /\ sheet_idx[r] > 0
           page == IF new_page THEN pages[r] + 1 ELSE pages[r]
           row == idx_on_page \div grid[r][1]
           col == idx_on_page % grid[r][1]
           made == generate_card(rng[r], config.min_number, config.max_number,
                                 config.distribution, segments[r])
       IN /\ pages' = [pages EXCEPT ![r] = page]
          /\ rng' = [rng EXCEPT ![r] = made.rng]
          /\ IF made.ok
             THEN /\ drawn' = [drawn EXCEPT ![r] =
                        Append(@, [sheet |-> sheet_idx[r], page |-> page,
                                   row |-> row, col |-> col,
                                   card |-> made.card,
                                   printed |-> draw_card(made.card)])]
                  /\ sheet_idx' = [sheet_idx EXCEPT ![r] = @ + 1]
                  /\ Goto(r, "draw")
             ELSE /\ UNCHANGED <<drawn, sheet_idx>>
                  /\ Finish(r, "fatal", "Sample larger than population")
    /\ UNCHANGED <<config, letter_colors, segments, prompts, answers, pdf, grid,
                   call>>

\* generate_pdf line 388 and main's return 0
Save(r) ==
    /\ pc[r] = "draw"
    /\ sheet_idx[r] >= config.sheets
    /\ pdf' = [pdf EXCEPT ![r] = "saved"]
    /\ Finish(r, "success", "")
    /\ UNCHANGED <<config, rng, letter_colors, segments, prompts, answers, grid,
                   sheet_idx, pages, drawn, call>>

Next ==
    \/ \E r \in Runs : Start(r)
    \/ \E r \in Runs : ValidateRanges(r)
    \/ \E r \in Runs : ConfirmPages(r)
    \/ \E r \in Runs : ConfirmSegments(r)
    \/ \E r \in Runs : CheckColumns(r)
    \/ \E r \in Runs : OpenPdf(r)
    \/ \E r \in Runs : DrawSheet(r)
    \/ \E r \in Runs : Save(r)

Spec == Init /\ [][Next]_vars

\* ------------------------------------------- two runs of one configuration
\* Both runs get the same Config; each reads its own answers at its prompts.
PairConfigs ==
    {MakeConfig(sh, pp, "a4", range, dist, color, seed,
                [assume_yes |-> yes, free_center |-> TRUE]) :
        sh \in 1..MaxPairSheets, pp \in 1..2, range \in {<<1, 25>>, <<-2, 24>>},
        dist \in {"segmented", "fully-random"},
        color \in {<<"black", None>>, <<"random", None>>},
        seed \in Seeds, yes \in BOOLEAN}

InitPair ==
    /\ config \in PairConfigs
    /\ InitRuns({1, 2})
    /\ call = NoCall

SpecPair == InitPair /\ [][Next]_vars

\* ------------------------------------------- the pure functions on their own
\* segment_ranges(min, max, 5) on every pool of 1..24+MaxExtraPool values
\* from a few minima; choose_grid on 1..MaxGridCards cards per page and page
\* sides that include the A4 and Letter dimensions and small ones that tie.
MinNumbers == {-5, 0, 1, 60}

PageSides == {1, 2, 3, 210, 297, 612, 792}

SegmentCalls ==
    {[fn |-> "segment_ranges", args |-> <<lo, lo + n - 1, 5>>, result |-> None] :
        lo \in MinNumbers, n \in 1..(24 + MaxExtraPool)}

GridCalls ==
    {[fn |-> "choose_grid", args |-> <<n, w, h>>, result |-> None] :
        n \in 1..MaxGridCards, w \in PageSides, h \in PageSides}

\* Entries of a --custom-letter-colors value, each with what it is meant to
\* be: whether it has a ':', the letter it names after strip and upper, and
\* whether its color is a strict #RRGGBB.
Entry(text, colon, letter, color_ok) ==
    [text |-> text, colon |-> colon, letter |-> letter, color_ok |-> color_ok]

LetterEntries ==
    <<Entry(ColorB, TRUE, <<"B">>, TRUE), Entry(ColorI, TRUE, <<"I">>, TRUE),
      Entry(ColorN, TRUE, <<"N">>, TRUE), Entry(ColorG, TRUE, <<"G">>, TRUE),
      Entry(ColorO, TRUE, <<"O">>, TRUE)>>

ExtraEntries ==
    {Entry(<<"X", ":", "#", "0", "0", "0", "0", "0", "0">>, TRUE, <<"X">>, TRUE),
     Entry(<<"B", "#", "0", "0", "0", "0", "0", "0">>, FALSE, <<>>, FALSE),
     Entry(<<>>, FALSE, <<>>, FALSE),
     Entry(<<"B", ":", "#", "1", "2", "3", "4", "5">>, TRUE, <<"B">>, FALSE),
     Entry(<<"O", ":", "#", "G", "G", "G", "G", "G", "G">>, TRUE, <<"O">>, FALSE),
     Entry(<<"I", ":", "D", "6", "2", "7", "2", "8">>, TRUE, <<"I">>, FALSE),
     Entry(<<"b", ":", "#", "f", "f", "f", "f", "f", "f">>, TRUE, <<"B">>, TRUE),
     Entry(<<"B", "I", ":", "#", "0", "0", "0", "0", "0", "0">>, TRUE,
           <<"B", "I">>, TRUE),
     Entry(<<":", "#", "0", "0", "0", "0", "0", "0">>, TRUE, <<>>, TRUE)}

\* the entries of LetterEntries whose index is in S, in order
RECURSIVE PickEntries(_, _)
PickEntries(i, S) ==
    IF i > Len(LetterEntries) THEN <<>>
    ELSE (IF i \in S THEN <<LetterEntries[i]>> ELSE <<>>) \o PickEntries(i + 1, S)

\* the lists of entries tried: any of the 5 letters' entries, in order, and
\* at most one further entry after them
EntryLists ==
    {PickEntries(1, S) : S \in SUBSET (1..5)}
    \cup {PickEntries(1, S) \o <<e>> : S \in SUBSET (1..5), e \in ExtraEntries}

\* ",".join of the entries' texts
RECURSIVE JoinEntries(_)
JoinEntries(entries) ==
    IF entries = <<>> THEN <<>>
    ELSE IF Len(entries) = 1 THEN entries[1].text
    ELSE entries[1].text \o Comma \o JoinEntries(Tail(entries))

ParseCalls ==
    {[fn |-> "parse_custom_letter_colors", args |-> <<spec>>, result |-> None] :
        spec \in {None} \cup {Str(JoinEntries(l)) : l \in EntryLists}}

InitFn ==
    /\ config = DefaultConfig
    /\ InitRuns({})
    /\ call \in SegmentCalls \cup GridCalls \cup ParseCalls

CallSegmentRanges ==
    /\ call.fn = "segment_ranges"
    /\ call.result = None
    /\ call' = [call EXCEPT
                  !.result = Some(segment_ranges(call.args[1], call.args[2],
                                                 call.args[3]))]
    /\ UNCHANGED <<config, pc, rng, letter_colors, segments, prompts, answers,
                   pdf, grid, sheet_idx, pages, drawn, outcome, exit_status,
                   error>>

CallChooseGrid ==
    /\ call.fn = "choose_grid"
    /\ call.result = None
    /\ call' = [call EXCEPT
                  !.result = Some(choose_grid(call.args[1], call.args[2],
                                              call.args[3]))]
    /\ UNCHANGED <<config, pc, rng, letter_colors, segments, prompts, answers,
                   pdf, grid, sheet_idx, pages, drawn, outcome, exit_status,
                   error>>

CallParseColors ==
    /\ call.fn = "parse_custom_letter_colors"
    /\ call.result = None
    /\ call' = [call EXCEPT
                  !.result = Some(parse_custom_letter_colors(call.args[1]))]
    /\ UNCHANGED <<config, pc, rng, letter_colors, segments, prompts, answers,
                   pdf, grid, sheet_idx, pages, drawn, outcome, exit_status,
                   error>>

NextFn == CallSegmentRanges \/ CallChooseGrid \/ CallParseColors

SpecFn == InitFn /\ [][NextFn]_vars

\* ------------------------------------------------------------- properties
Cells == {<<row, col>> : row \in 0..4, col \in 0..4}

NonCenter == Cells \ {<<2, 2>>}

\* every card a run has drawn so far
CardsDrawn == UNION {{drawn[r][i].card : i \in 1..Len(drawn[r])} : r \in Runs}

\* C1: in every card generate_card returned, in both distributions, the 24
\* non-center cells hold pairwise-distinct integers of min_number..max_number.
C1_DistinctInPool ==
    \A card \in CardsDrawn :
        /\ \A p \in NonCenter :
             /\ card[p[1]][p[2]] # None
             /\ card[p[1]][p[2]][1] \in config.min_number..config.max_number
        /\ \A p, q \in NonCenter :
             p # q => card[p[1]][p[2]] # card[q[1]][q[2]]

\* C1's case: a fully-random run over more than 24 values has drawn two cards
C1_Witness ==
    \E r \in Runs :
        /\ config.distribution = "fully-random"
        /\ config.max_number - config.min_number + 1 > 24
        /\ Len(drawn[r]) >= 2

\* C2: in segmented mode every column c holds numbers of segment c only,
\* strictly increasing from row 0 to row 4; column 2 fills rows 0, 1, 3, 4
\* and leaves row 2 empty.
C2_SegmentedColumns ==
    config.distribution = "segmented" =>
        \A r \in Runs : \A i \in 1..Len(drawn[r]) :
            LET card == drawn[r][i].card
                rows(c) == IF c = 2 THEN {0, 1, 3, 4} ELSE 0..4
            IN /\ card[2][2] = None
               /\ \A c \in 0..4 :
                    /\ \A row \in rows(c) :
                         /\ card[row][c] # None
                         /\ card[row][c][1] \in SeqToSet(segments[r][c + 1])
                    /\ \A a, b \in rows(c) :
                         a < b => card[a][c][1] < card[b][c][1]

\* C2's case: a segmented run with uneven segments has drawn a card
C2_Witness ==
    \E r \in Runs :
        /\ config.distribution = "segmented"
        /\ Len(drawn[r]) >= 1
        /\ Len(segments[r]) = 5
        /\ Len(segments[r][1]) # Len(segments[r][5])

RECURSIVE Flatten(_)
Flatten(seqs) == IF seqs = <<>> THEN <<>> ELSE Head(seqs) \o Flatten(Tail(seqs))

RECURSIVE SumSeq(_)
SumSeq(xs) == IF xs = <<>> THEN 0 ELSE Head(xs) + SumSeq(Tail(xs))

SegmentsReturned == call.fn = "segment_ranges" /\ call.result # None

\* C4: for min <= max with n = max - min + 1 >= 24, segment_ranges(min, max, 5)
\* returns 5 slices whose concatenation is min..max in order; the first
\* n mod 5 have floor(n/5) + 1 elements and the others floor(n/5), so the
\* lengths sum to n and differ by at most 1.
C4_SegmentsPartition ==
    SegmentsReturned /\ call.args[2] - call.args[1] + 1 >= 24 =>
        LET lo == call.args[1]
            n == call.args[2] - call.args[1] + 1
            segs == call.result[1]
            all == Flatten(segs)
        IN /\ Len(segs) = 5
           /\ Len(all) = n
           /\ \A i \in 1..n : all[i] = lo + i - 1
           /\ \A i \in 1..5 :
                Len(segs[i]) = (n \div 5) + (IF i <= n % 5 THEN 1 ELSE 0)
           /\ SumSeq(Lengths(segs)) = n
           /\ \A i, j \in 1..5 : Len(segs[i]) - Len(segs[j]) <= 1

\* C4's case: a pool of at least 24 values, not a multiple of 5, was split
C4_Witness ==
    /\ SegmentsReturned
    /\ call.args[2] - call.args[1] + 1 >= 24
    /\ (call.args[2] - call.args[1] + 1) % 5 = 3

GridReturned == call.fn = "choose_grid" /\ call.result # None

\* rows needed for n cards in c columns: the least k with k * c >= n
RowsFor(n, c) == CHOOSE k \in 1..n : k * c >= n /\ (k - 1) * c < n

\* min(w / c1, h / RowsFor(n, c1)) <= min(w / c2, h / RowsFor(n, c2)):
\* one of the two quotients of c1 is at most both quotients of c2
ScoreLeq(n, w, h, c1, c2) ==
    LET r1 == RowsFor(n, c1)
        r2 == RowsFor(n, c2)
    IN \/ w * c2 <= w * c1 /\ w * r2 <= h * c1
       \/ h * c2 <= w * r1 /\ h * r2 <= h * r1

\* C5: choose_grid returns (columns, rows) with columns in 1..sheets_per_page,
\* rows = ceil(sheets_per_page / columns), columns * rows >= sheets_per_page,
\* no candidate scoring strictly more, and the smallest columns among the
\* candidates of maximum score; (4, 210, 297) gives (2, 2).
C5_GridIsFirstMaximum ==
    GridReturned =>
        LET n == call.args[1]
            w == call.args[2]
            h == call.args[3]
            cols == call.result[1][1]
            rows == call.result[1][2]
        IN /\ cols \in 1..n
           /\ rows = RowsFor(n, cols)
           /\ cols * rows >= n
           /\ \A c \in 1..n : ScoreLeq(n, w, h, c, cols)
           /\ \A c \in 1..(cols - 1) : ~ScoreLeq(n, w, h, cols, c)
           /\ (call.args = <<4, 210, 297>> => call.result[1] = <<2, 2>>)

\* C5's case: choose_grid(4, 210, 297) has returned
C5_Witness == GridReturned /\ call.args = <<4, 210, 297>>

HasFatalCondition(c) ==
    \/ c.sheets <= 0
    \/ c.sheets_per_page <= 0
    \/ c.max_number < c.min_number
    \/ c.max_number - c.min_number + 1 < 24
    \/ /\ c.distribution = "segmented"
       /\ \E i \in 1..5 :
            Len(segment_ranges(c.min_number, c.max_number, 5)[i])
                < <<5, 5, 4, 5, 5>>[i]

\* C7: a configuration that meets a fatal condition never ends in success
\* or in a user cancellation, whatever is answered at the prompts.
C7_FatalNeverCancelled ==
    \A r \in Runs :
        HasFatalCondition(config) /\ pc[r] = "done"
            => outcome[r] \notin {"success", "cancelled"}

\* the uneven-pages warnings run r has printed
PagesPrompts(r) ==
    {prompts[r][i] : i \in {j \in 1..Len(prompts[r]) :
                                prompts[r][j].kind = "uneven_pages"}}

\* run r is past validate_config's uneven-pages check
PastPagesCheck(r) ==
    \/ pc[r] \in {"confirm_segments", "check_columns", "open", "draw"}
    \/ /\ pc[r] = "done"
       /\ \/ outcome[r] \in {"success", "cancelled", "eof"}
          \/ error[r] = "Not enough numbers in column"

\* C8: past the fatal range checks, the uneven-pages confirmation is requested
\* exactly when sheets mod sheets_per_page # 0; its message carries
\* pages_needed = ceil(sheets / sheets_per_page) and
\* empty_slots = pages_needed * sheets_per_page - sheets (5 and 4: 2 and 3).
C8_UnevenPagesPrompt ==
    \A r \in Runs :
        /\ PastPagesCheck(r) =>
             (PagesPrompts(r) # {} <=> config.sheets % config.sheets_per_page # 0)
        /\ \A m \in PagesPrompts(r) :
             /\ m.values[1] = config.sheets
             /\ m.values[2] = config.sheets_per_page
             /\ m.values[3] * config.sheets_per_page >= config.sheets
             /\ (m.values[3] - 1) * config.sheets_per_page < config.sheets
             /\ m.values[4] = m.values[3] * config.sheets_per_page - config.sheets
             /\ (config.sheets = 5 /\ config.sheets_per_page = 4
                    => m.values[3] = 2 /\ m.values[4] = 3)

\* C8's case: the warning for 5 sheets, 4 per page has been printed
C8_Witness ==
    \E r \in Runs :
        /\ config.sheets = 5
        /\ config.sheets_per_page = 4
        /\ PagesPrompts(r) # {}

\* the warnings validate_config has to print for configuration c
WarningsDue(c) ==
    (IF c.sheets % c.sheets_per_page # 0 THEN 1 ELSE 0)
    + (IF c.distribution = "segmented"
          /\ (c.max_number - c.min_number + 1) % 5 # 0 THEN 1 ELSE 0)

\* C9: the document is opened only after color resolution, every validation
\* check and every confirmation have succeeded; a run that ends in a fatal
\* error or a declined confirmation has created no document and drawn no card.
C9_OpenedAfterValidation ==
    \A r \in Runs :
        /\ outcome[r] \in {"fatal", "cancelled", "eof"} =>
             pdf[r] = "none" /\ drawn[r] = <<>>
        /\ drawn[r] # <<>> => pdf[r] # "none"
        /\ pdf[r] # "none" =>
             /\ DOMAIN letter_colors[r] = {<<"B">>, <<"I">>, <<"N">>, <<"G">>, <<"O">>}
             /\ ~HasFatalCondition(config)
             /\ Len(prompts[r]) = WarningsDue(config)
             /\ ~config.assume_yes =>
                  /\ Len(answers[r]) = Len(prompts[r])
                  /\ \A i \in 1..Len(answers[r]) :
                       answers[r][i] \in {Some(<<"y">>), Some(<<"Y", "E", "S", " ">>)}

\* C9's case: a run was declined at its second confirmation
C9_Witness ==
    \E r \in Runs :
        /\ outcome[r] = "cancelled"
        /\ Len(prompts[r]) = 2
        /\ pdf[r] = "none"

\* C10: declining a confirmation (assume_yes false) ends the run as a user
\* cancellation with exit status 1; a fatal error exits with 2 and a
\* successful run with 0.
C10_ExitStatuses ==
    \A r \in Runs :
        /\ (/\ pc[r] = "done"
            /\ answers[r] # <<>>
            /\ answers[r][Len(answers[r])] \in {Some(<<"n">>), Some(<<>>)})
           => outcome[r] = "cancelled"
        /\ outcome[r] = "cancelled" =>
             /\ ~config.assume_yes
             /\ exit_status[r] = Some(1)
        /\ outcome[r] = "fatal" => exit_status[r] = Some(2)
        /\ outcome[r] = "success" => exit_status[r] = Some(0)
        /\ outcome[r] = "running" => exit_status[r] = None

\* C10's case: a run declined at a prompt has exited
C10_Witness ==
    \E r \in Runs :
        /\ answers[r] # <<>>
        /\ answers[r][Len(answers[r])] = Some(<<"n">>)
        /\ exit_status[r] = Some(1)

\* the uneven-segments warnings run r has printed
SegmentsPrompts(r) ==
    {prompts[r][i] : i \in {j \in 1..Len(prompts[r]) :
                                prompts[r][j].kind = "uneven_segments"}}

\* run r is past validate_config's uneven-segments check
PastSegmentsCheck(r) ==
    \/ pc[r] \in {"check_columns", "open", "draw"}
    \/ /\ pc[r] = "done"
       /\ \/ outcome[r] = "success"
          \/ error[r] = "Not enough numbers in column"

PoolSize(c) == c.max_number - c.min_number + 1

\* C11: in segmented mode the uneven-segments confirmation is requested
\* exactly when the 5 segment lengths are not all equal, that is when the
\* pool size is not divisible by 5; it is never requested in fully-random
\* mode, where validation returns the empty segment list; the pool 1..75 has
\* the lengths 15,15,15,15,15, passes the per-column check and is not asked.
C11_UnevenSegmentsPrompt ==
    \A r \in Runs :
        /\ SegmentsPrompts(r) # {} =>
             /\ config.distribution = "segmented"
             /\ PoolSize(config) % 5 # 0
             /\ \A m \in SegmentsPrompts(r) :
                  /\ m.values = Lengths(segments[r])
                  /\ \E i, j \in 1..5 : m.values[i] # m.values[j]
        /\ PastSegmentsCheck(r) /\ config.distribution = "segmented" =>
             /\ SegmentsPrompts(r) # {} <=> PoolSize(config) % 5 # 0
             /\ SegmentsPrompts(r) = {} <=>
                  \A i, j \in 1..5 : Len(segments[r][i]) = Len(segments[r][j])
        /\ PastSegmentsCheck(r) /\ config.distribution = "fully-random" =>
             segments[r] = <<>>
        /\ (/\ PastSegmentsCheck(r)
            /\ config.distribution = "segmented"
            /\ config.min_number = 1
            /\ config.max_number = 75) =>
             /\ Lengths(segments[r]) = <<15, 15, 15, 15, 15>>
             /\ error[r] # "Not enough numbers in column"

\* C11's case: the warning for the 27 values of -2..24 has been printed
\* with the lengths 6,6,5,5,5
C11_Witness ==
    \E r \in Runs :
        /\ config.distribution = "segmented"
        /\ PoolSize(config) = 27
        /\ \E m \in SegmentsPrompts(r) : m.values = <<6, 6, 5, 5, 5>>

\* parse_custom_letter_colors has returned or raised
ParseReturned == call.fn = "parse_custom_letter_colors" /\ call.result # None

FiveLetters == {<<"B">>, <<"I">>, <<"N">>, <<"G">>, <<"O">>}

\* the letters the entries name
Named(entries) == {entries[i].letter : i \in 1..Len(entries)}

\* every entry is LETTER:#RRGGBB for one of the 5 letters
EntriesValid(entries) ==
    \A i \in 1..Len(entries) :
        /\ entries[i].colon
        /\ entries[i].letter \in FiveLetters
        /\ entries[i].color_ok

\* C12: parse_custom_letter_colors succeeds exactly when the value gives a
\* strict #RRGGBB color to each of B, I, N, G, O and names no other letter,
\* and then returns a map with exactly those 5 keys; it fails when the value
\* is absent, an entry has no ':', a letter is not one of the 5 or a color is
\* not strict; when only letters are missing the error names exactly them.
C12_ParseExactlyFiveLetters ==
    ParseReturned =>
        LET res == call.result[1]
        IN /\ call.args[1] \in {None, Str(<<>>)} =>
                res = ColorError("--custom-letter-colors is required", <<>>)
           /\ \A entries \in EntryLists :
                call.args[1] = Str(JoinEntries(entries)) =>
                  /\ res.ok <=> (EntriesValid(entries) /\ Named(entries) = FiveLetters)
                  /\ res.ok => DOMAIN res.colors = FiveLetters
                  /\ (/\ entries # <<>>
                      /\ EntriesValid(entries)
                      /\ Named(entries) # FiveLetters) =>
                       /\ res.error = "Missing custom colors for"
                       /\ res.missing =
                            SelectSeq(LETTERS, LAMBDA l : <<l>> \notin Named(entries))

\* configuration c has a condition that ends the run with an error: those
\* of HasFatalCondition or a custom color value that does not parse
HasFatalError(c) ==
    \/ HasFatalCondition(c)
    \/ /\ c.letter_color_mode = "custom"
       /\ ~parse_custom_letter_colors(c.custom_letter_colors).ok

\* no run has read an answer or ended at a prompt
NothingAsked ==
    \A r \in Runs :
        /\ answers[r] = <<>>
        /\ outcome[r] \notin {"cancelled", "eof"}

\* every run has drawn its sheets and saved the document, with every due
\* warning printed
Completed ==
    \A r \in Runs :
        /\ outcome[r] = "success"
        /\ Len(drawn[r]) = config.sheets
        /\ pdf[r] = "saved"
        /\ Len(prompts[r]) = WarningsDue(config)

\* the statements run r still has to execute at most: the stages before the
\* rendering loop, the iterations of the loop and the save
StagesLeft(label) ==
    CASE label = "start" -> 7
      [] label = "validate" -> 6
      [] label = "confirm_pages" -> 5
      [] label = "confirm_segments" -> 4
      [] label = "check_columns" -> 3
      [] label = "open" -> 2
      [] label = "draw" -> 1
      [] label = "done" -> 0

Remaining(r) ==
    StagesLeft(pc[r])
    + (IF pc[r] = "done" \/ sheet_idx[r] >= config.sheets THEN 0
       ELSE config.sheets - sheet_idx[r])

CardsOnPage(r, p) == {i \in 1..Len(drawn[r]) : drawn[r][i].page = p}

\* C14: the cards are drawn for sheet_idx = 0, 1, ... in order; a new page is
\* started exactly when sheet_idx mod sheets_per_page = 0 and sheet_idx > 0;
\* card sheet_idx is on page sheet_idx div sheets_per_page, every page but
\* the last holds exactly sheets_per_page cards, the saved document has
\* ceil(sheets / sheets_per_page) pages and is saved after the last card.
C14_PageBreaks ==
    /\ [](\A r \in Runs :
            /\ \A i \in 1..Len(drawn[r]) :
                 /\ drawn[r][i].sheet = i - 1
                 /\ drawn[r][i].page = (i - 1) \div config.sheets_per_page
                 /\ drawn[r][i].page <= pages[r]
            /\ \A p \in 0..(pages[r] - 1) :
                 Cardinality(CardsOnPage(r, p)) = config.sheets_per_page
            /\ pdf[r] = "saved" =>
                 /\ pc[r] = "done"
                 /\ Len(drawn[r]) = config.sheets
                 /\ drawn[r][Len(drawn[r])].page = pages[r]
                 /\ (pages[r] + 1) * config.sheets_per_page >= config.sheets
                 /\ pages[r] * config.sheets_per_page < config.sheets)
    /\ [][\A r \in Runs :
            /\ pages'[r] \in {pages[r], pages[r] + 1}
            /\ pages'[r] = pages[r] + 1 <=>
                 /\ pc[r] = "draw"
                 /\ sheet_idx[r] < config.sheets
                 /\ sheet_idx[r] % config.sheets_per_page = 0
                 /\ sheet_idx[r] > 0
            /\ drawn'[r] # drawn[r] =>
                 /\ pdf[r] = "open"
                 /\ Len(drawn'[r]) = Len(drawn[r]) + 1
                 /\ sheet_idx'[r] = sheet_idx[r] + 1
            /\ pdf'[r] # pdf[r] /\ pdf'[r] = "saved" =>
                 /\ sheet_idx[r] = config.sheets
                 /\ drawn'[r] = drawn[r]]_vars

\* C14's case: 5 sheets, 2 per page, saved on 3 pages, the last with 1 card
C14_Witness ==
    \E r \in Runs :
        /\ config.sheets = 5
        /\ config.sheets_per_page = 2
        /\ pdf[r] = "saved"
        /\ pages[r] = 2
        /\ Cardinality(CardsOnPage(r, 2)) = 1

\* C15: for a pool of n >= 24 values split in 5, the per-column requirement
\* check fails exactly when n = 24 (lengths 5,5,5,5,4: column O has 4 values
\* and needs 5); for n >= 25 every segment holds what its column needs and a
\* segmented card is sampled without error; the 24 values do make a
\* fully-random card.
C15_ColumnCheckFailsOnly24 ==
    SegmentsReturned /\ call.args[3] = 5
                     /\ call.args[2] - call.args[1] + 1 >= 24 =>
        LET lo == call.args[1]
            hi == call.args[2]
            n == hi - lo + 1
            segs == call.result[1]
        IN /\ ShortColumn(segs) # 0 <=> n = 24
           /\ n = 24 =>
                /\ Lengths(segs) = <<5, 5, 5, 5, 4>>
                /\ ShortColumn(segs) = 5
                /\ LETTERS[ShortColumn(segs)] = "O"
                /\ \A s \in UnseededStates :
                     /\ ~generate_card(s, lo, hi, "segmented", segs).ok
                     /\ generate_card(s, lo, hi, "fully-random", <<>>).ok
           /\ n >= 25 =>
                /\ \A col \in 0..4 :
                     Len(segs[col + 1]) >= (IF col = 2 THEN 4 ELSE 5)
                /\ \A s \in UnseededStates :
                     generate_card(s, lo, hi, "segmented", segs).ok

\* C15's case: a pool of exactly 24 values was split into 5,5,5,5,4
C15_Witness ==
    /\ SegmentsReturned
    /\ call.args[2] - call.args[1] + 1 = 24
    /\ Lengths(call.result[1]) = <<5, 5, 5, 5, 4>>

\* C16: every card is drawn in the slot row = idx_on_page div columns,
\* col = idx_on_page mod columns with idx_on_page = sheet_idx mod
\* sheets_per_page; the slot lies inside the chosen grid (0 <= row < rows,
\* 0 <= col < columns) and two different cards of one page never share a slot.
C16_SlotsInsideGrid ==
    \A r \in Runs :
        LET columns == grid[r][1]
            rows == grid[r][2]
        IN /\ pdf[r] # "none" =>
                /\ columns >= 1
                /\ rows >= 1
                /\ columns * rows >= config.sheets_per_page
           /\ \A i \in 1..Len(drawn[r]) :
                LET idx_on_page == drawn[r][i].sheet % config.sheets_per_page
                IN /\ drawn[r][i].row = idx_on_page \div columns
                   /\ drawn[r][i].col = idx_on_page % columns
                   /\ 0 <= drawn[r][i].row /\ drawn[r][i].row < rows
                   /\ 0 <= drawn[r][i].col /\ drawn[r][i].col < columns
           /\ \A i, j \in 1..Len(drawn[r]) :
                (i # j /\ drawn[r][i].page = drawn[r][j].page) =>
                    <<drawn[r][i].row, drawn[r][i].col>>
                        # <<drawn[r][j].row, drawn[r][j].col>>

\* C16's case: 3 cards per page on a 2 x 2 grid, the third card of a page
\* drawn in row 1, column 0
C16_Witness ==
    \E r \in Runs :
        /\ config.sheets_per_page = 3
        /\ grid[r] = <<2, 2>>
        /\ \E i \in 1..Len(drawn[r]) :
             /\ drawn[r][i].sheet = 2
             /\ drawn[r][i].row = 1
             /\ drawn[r][i].col = 0

====
